---- MODULE Spec2Model ----
(***************************************************************************)
(* Match Outcome Prediction Engine of xGoalPro: the retry wrapper of the   *)
(* Postgres gateway, the SQLite and Postgres prediction stores, and the    *)
(* PredictionModel pipeline, as state machines.                            *)
(*                                                                         *)
(* Python values are written as follows.  A call's outcome is a record     *)
(* [kind, value, num, exc]: kind "return" with the returned value, kind    *)
(* "raise" with the exception, kind "none" while the call has not          *)
(* finished.  Returned values are the strings "True", "False", "None",     *)
(* for the abstract operation of the retry wrapper "result", and "float"   *)
(* with the number in num.  An exception is a record [cls, tag, msg]: its  *)
(* class name, a tag telling instances apart (the attempt that raised it;  *)
(* for an HTTP response error its status) and its text.                    *)
(***************************************************************************)
EXTENDS Integers, Sequences, FiniteSets, Bags, TLC

\* ------------------------------------------------------------------ bounds
MaxRetriesBound == 3    \* max_retries of a decorated operation ranges over 0..MaxRetriesBound
MaxDelay == 2           \* base delay of a decorated operation ranges over 1..MaxDelay
NumCallers == 2         \* concurrent callers (tasks) of the store and the pipeline
MaxMatch == 2           \* match ids range over 1..MaxMatch
MaxScore == 1           \* real scores range over 0..MaxScore
MaxRows == 3            \* rows the predictions relation holds at most
MaxOpens == 3           \* connections or pools created over a run of the store
NumJobs == 2
MaxBackfillRows == 2
MaxWindow == 3          \* matches in a team's window
MaxGoals == 2           \* max_goals of the probability matrix
MaxXg == 4              \* expected goals, in halves of a goal

\* --------------------------------------------------------------- constants
DefaultMaxRetries == 3  \* retry_on_connection_error(max_retries=3, ...)
DefaultDelay == 1       \* retry_on_connection_error(..., delay=1.0)

VARIABLES
    wr,          \* wr[c]: caller c's frame of retry_on_connection_error.wrapper
    kind,        \* which store class the storage object is: "sqlite" or "postgres"
    config,      \* self.max_retries and self.retry_delay of a Postgres object
    rows,        \* the predictions relation: a bag of rows (the id column left out)
    initialized, \* self._initialized
    conn,        \* self.__conn / self.pool: 0 is None, else an index into pools
    pools,       \* every connection or pool created so far: "open" or "closed"
    ddl,         \* how many schema statements have been executed
    call,        \* call[c]: the store operation caller c issued last
    run,         \* run[c]: the PredictionModel coroutine task c runs
    job,         \* job[j]: the run j of the score backfill script
    calc         \* the last evaluation of one of PredictionModel's pure helpers

storeVars == <<kind, config, rows, initialized, conn, pools, ddl, call>>
vars == <<wr, kind, config, rows, initialized, conn, pools, ddl, call, run, job, calc>>

\* ------------------------------------------------------------ Python values
PyTrue == "True"
PyFalse == "False"
PyNone == "None"

NoException == [cls |-> "None", tag |-> 0, msg |-> ""]
Exc(cls, tag) == [cls |-> cls, tag |-> tag, msg |-> cls]

\* str(e)
Str(e) == e.msg

Pending == [kind |-> "none", value |-> PyNone, num |-> 0, exc |-> NoException]
Return(v) == [kind |-> "return", value |-> v, num |-> 0, exc |-> NoException]
ReturnNum(n) == [kind |-> "return", value |-> "float", num |-> n, exc |-> NoException]
Raise(e) == [kind |-> "raise", value |-> PyNone, num |-> 0, exc |-> e]

\* Exception classes caught by the wrapper's except clause: the two named
\* classes and (isinstance) their subclasses.
ConnectionClasses ==
    {"PostgresConnectionError", "ConnectionError", "ConnectionResetError"}
OtherClasses == {"UniqueViolationError", "InterfaceError"}

IsConnectionClassCatchAll(e) == TRUE

\* except (asyncpg.PostgresConnectionError, ConnectionError) as e
IsConnectionClass(e) == e.cls \in ConnectionClasses

WaitTimeConstant(delay, attempt) == delay

\* wait_time = delay * attempt
WaitTime(delay, attempt) == delay * attempt

KeepFirstException(last_exception, e) ==
    IF last_exception = NoException THEN e ELSE last_exception

\* last_exception = e
RecordException(last_exception, e) == e

\* ------------------------------------------------------- the retry wrapper
\* pc: "idle" (no call), "call" (about to await func), "sleep" (in
\* asyncio.sleep), "exhausted" (the for loop is over), "done".
\* invocations, sleeps and results observe the run: how often func was
\* awaited, the wait times slept in order, and each attempt's outcome.
IdleFrame ==
    [pc |-> "idle", func |-> "none", max_retries |-> 0, delay |-> 0,
     attempt |-> 0, last_exception |-> NoException, invocations |-> 0,
     sleeps |-> <<>>, results |-> <<>>, outcome |-> Pending]

\* wrapper(*args, **kwargs) is entered: last_exception = None and the for
\* loop over range(1, max_retries + 1) starts, or is empty.
EnterFrame(func, max_retries, delay) ==
    [IdleFrame EXCEPT !.pc = IF max_retries >= 1 THEN "call" ELSE "exhausted",
                      !.func = func, !.max_retries = max_retries,
                      !.delay = delay,
                      !.attempt = IF max_retries >= 1 THEN 1 ELSE 0]

AfterAttemptOneMore(f, res) ==
    LET g == [f EXCEPT !.invocations = @ + 1, !.results = Append(@, res)] IN
    IF res.kind = "return"
    THEN [g EXCEPT !.pc = "done", !.outcome = res]
    ELSE IF IsConnectionClass(res.exc)
    THEN LET h == [g EXCEPT !.last_exception = RecordException(@, res.exc)] IN
         IF f.attempt <= f.max_retries
         THEN [h EXCEPT !.pc = "sleep",
                        !.sleeps = Append(@, WaitTime(f.delay, f.attempt))]
         ELSE [h EXCEPT !.pc = "exhausted"]
    ELSE [g EXCEPT !.pc = "done", !.outcome = res]

\* One pass of the loop body: func has been awaited with outcome res.
AfterAttempt(f, res) ==
    LET g == [f EXCEPT !.invocations = @ + 1, !.results = Append(@, res)] IN
    IF res.kind = "return"
    THEN [g EXCEPT !.pc = "done", !.outcome = res]
    ELSE IF IsConnectionClass(res.exc)
    THEN LET h == [g EXCEPT !.last_exception = RecordException(@, res.exc)] IN
         IF f.attempt < f.max_retries
         THEN [h EXCEPT !.pc = "sleep",
                        !.sleeps = Append(@, WaitTime(f.delay, f.attempt))]
         ELSE [h EXCEPT !.pc = "exhausted"]
    ELSE [g EXCEPT !.pc = "done", !.outcome = res]

\* asyncio.sleep(wait_time) returns: the next iteration of the for loop.
AfterSleep(f) == [f EXCEPT !.pc = "call", !.attempt = @ + 1]

\* raise last_exception; raising None is a TypeError.
AfterLoop(f) ==
    [f EXCEPT !.pc = "done",
              !.outcome = IF f.last_exception = NoException
                          THEN Raise(Exc("TypeError", 0))
                          ELSE Raise(f.last_exception)]

\* The wrapper run to its end when attempt n of func has the outcome res[n]
\* (the calls a decorated method makes on another decorated method).
RECURSIVE RunFrame(_, _)
RunFrame(f, res) ==
    IF f.pc = "done" THEN f
    ELSE IF f.pc = "call" THEN RunFrame(AfterAttempt(f, res[f.attempt]), res)
    ELSE IF f.pc = "sleep" THEN RunFrame(AfterSleep(f), res)
    ELSE RunFrame(AfterLoop(f), res)

\* ------------------------------------------------- the predictions relation
\* The model keys (the selection flags written as a string) and the values a
\* caller passes for the other columns of a row.
ModelKeys == {"10", "01"}
Payloads ==
    {[home_id |-> 1, home_name |-> "H", home_xg |-> 15, away_id |-> 2,
      away_name |-> "A", away_xg |-> 10, home_p |-> 50, draw_p |-> 25,
      away_p |-> 25],
     [home_id |-> 1, home_name |-> "H", home_xg |-> 20, away_id |-> 2,
      away_name |-> "A", away_xg |-> 5, home_p |-> 70, draw_p |-> 20,
      away_p |-> 10]}
NoPayload ==
    [home_id |-> 0, home_name |-> "", home_xg |-> 0, away_id |-> 0,
     away_name |-> "", away_xg |-> 0, home_p |-> 0, draw_p |-> 0, away_p |-> 0]

\* The ratings relation (eloScores): team name -> rating, and the rating of
\* a team that has no row.
Teams == {"H", "A", "UnknownTeamXYZ"}
EloScores == [t \in {"H", "A"} |-> IF t = "H" THEN 1600 ELSE 1450]
DefaultElo == 1500

\* real_home_score INTEGER DEFAULT -1, real_away_score INTEGER DEFAULT -1
SentinelScore == -1

NewRowSwapsXg(match_id, model, p) ==
    [match_id |-> match_id, model |-> model, home_id |-> p.home_id,
     home_name |-> p.home_name, home_xg |-> p.away_xg, away_id |-> p.away_id,
     away_name |-> p.away_name, away_xg |-> p.home_xg, home_p |-> p.home_p,
     draw_p |-> p.draw_p, away_p |-> p.away_p,
     real_home_score |-> SentinelScore, real_away_score |-> SentinelScore]

\* The row an INSERT of the eleven given columns creates.
NewRow(match_id, model, p) ==
    [match_id |-> match_id, model |-> model, home_id |-> p.home_id,
     home_name |-> p.home_name, home_xg |-> p.home_xg, away_id |-> p.away_id,
     away_name |-> p.away_name, away_xg |-> p.away_xg, home_p |-> p.home_p,
     draw_p |-> p.draw_p, away_p |-> p.away_p,
     real_home_score |-> SentinelScore, real_away_score |-> SentinelScore]

\* The values of a row in the columns an INSERT gives.
PayloadOf(r) ==
    [home_id |-> r.home_id, home_name |-> r.home_name, home_xg |-> r.home_xg,
     away_id |-> r.away_id, away_name |-> r.away_name, away_xg |-> r.away_xg,
     home_p |-> r.home_p, draw_p |-> r.draw_p, away_p |-> r.away_p]

NoUniqueConstraint(rs, match_id, model) == FALSE

\* UNIQUE(match_id, model)
UniqueViolation(rs, match_id, model) ==
    \E r \in DOMAIN rs : r.match_id = match_id /\ r.model = model

InsertOrReplace(rs, row, on_conflict_do_nothing) ==
    LET kept == {r \in DOMAIN rs : ~(r.match_id = row.match_id /\ r.model = row.model)} IN
    [rows |-> [r \in kept |-> rs[r]] (+) SetToBag({row}), violation |-> FALSE]

\* INSERT INTO predictions (...) VALUES (...), plain or with
\* ON CONFLICT (match_id, model) DO NOTHING.
InsertStatement(rs, row, on_conflict_do_nothing) ==
    IF UniqueViolation(rs, row.match_id, row.model)
    THEN [rows |-> rs, violation |-> ~on_conflict_do_nothing]
    ELSE [rows |-> rs (+) SetToBag({row}), violation |-> FALSE]

\* How many rows of the bag rs lie in the set S.
CountIn(rs, S) == BagCardinality([r \in S \cap DOMAIN rs |-> rs[r]])

UpdateMatchesKeyToo(r, match_id) == r.match_id = match_id /\ r.model = "10"

\* WHERE match_id = ?
UpdateMatches(r, match_id) == r.match_id = match_id

\* UPDATE predictions SET real_home_score = ?, real_away_score = ? WHERE ...
UpdateStatement(rs, match_id, home_score, away_score) ==
    LET Set(r) == IF UpdateMatches(r, match_id)
                  THEN [r EXCEPT !.real_home_score = home_score,
                                 !.real_away_score = away_score]
                  ELSE r IN
    [rows |-> [x \in {Set(r) : r \in DOMAIN rs} |->
                 CountIn(rs, {r \in DOMAIN rs : Set(r) = x})],
     rowcount |-> CountIn(rs, {r \in DOMAIN rs : UpdateMatches(r, match_id)})]

\* asyncpg's status of an UPDATE: 'UPDATE <n>', here as its words.
UpdateStatus(rowcount) == <<"UPDATE", rowcount>>

\* result.startswith("UPDATE") and int(result.split()[-1]) > 0
PgUpdated(result) == result[1] = "UPDATE" /\ result[Len(result)] > 0

\* cursor.rowcount > 0
SqliteUpdated(rowcount) == rowcount > 0

\* ------------------------------------------------------------ the two stores
\* PostgresPredictionStorage.__init__(url, max_retries=3, retry_delay=1.0)
\* keeps its two numbers in self.max_retries and self.retry_delay.
Configs == [max_retries : 1..MaxRetriesBound, retry_delay : 1..MaxDelay]
DefaultConfig == [max_retries |-> DefaultMaxRetries, retry_delay |-> DefaultDelay]

DB == [rows |-> rows, initialized |-> initialized, conn |-> conn,
       pools |-> pools, ddl |-> ddl]

SetDB(db) ==
    /\ rows' = db.rows
    /\ initialized' = db.initialized
    /\ conn' = db.conn
    /\ pools' = db.pools
    /\ ddl' = db.ddl

IsDB(db) ==
    /\ rows = db.rows
    /\ initialized = db.initialized
    /\ conn = db.conn
    /\ pools = db.pools
    /\ ddl = db.ddl

NoArgs == [match_id |-> 0, model |-> "", payload |-> NoPayload,
           home_score |-> SentinelScore, away_score |-> SentinelScore,
           team |-> ""]
EloArgs(t) == [NoArgs EXCEPT !.team = t]
InsertArgs(m, k, p) == [NoArgs EXCEPT !.match_id = m, !.model = k, !.payload = p]
UpdateArgs(m, h, a) == [NoArgs EXCEPT !.match_id = m, !.home_score = h, !.away_score = a]

Out(db, res) == [db |-> db, res |-> res]

\* What goes wrong in the database or on the way to it, as an input of a
\* call: for SQLite an sqlite3 error; for Postgres a connection-class error
\* before the statement took effect, one after its transaction was
\* committed, or another Postgres error.
SqliteFaults == {"none", "error"}
PgFaults == {"none", "conn_before", "conn_after", "other"}

SqliteInsertUncaught(db, a, fault) ==
    IF db.conn = 0 THEN Out(db, Raise(Exc("AttributeError", 0)))
    ELSE IF fault = "error" THEN Out(db, Raise(Exc("OperationalError", 0)))
    ELSE LET st == InsertStatement(db.rows, NewRow(a.match_id, a.model, a.payload), FALSE) IN
         IF st.violation
         THEN Out(db, Raise(Exc("IntegrityError", 0)))
         ELSE Out([db EXCEPT !.rows = st.rows], Return(PyTrue))

\* SQLitePredictionStorage.insert_prediction
SqliteInsert(db, a, fault) ==
    IF db.conn = 0 THEN Out(db, Raise(Exc("AttributeError", 0)))
    ELSE IF fault = "error" THEN Out(db, Raise(Exc("OperationalError", 0)))
    ELSE LET st == InsertStatement(db.rows, NewRow(a.match_id, a.model, a.payload), FALSE) IN
         IF st.violation
         THEN Out(db, Return(PyFalse))
         ELSE Out([db EXCEPT !.rows = st.rows], Return(PyTrue))

\* SQLitePredictionStorage.update_prediction_with_score
SqliteUpdate(db, a, fault) ==
    IF db.conn = 0 THEN Out(db, Raise(Exc("AttributeError", 0)))
    ELSE IF fault = "error" THEN Out(db, Raise(Exc("OperationalError", 0)))
    ELSE LET st == UpdateStatement(db.rows, a.match_id, a.home_score, a.away_score) IN
         Out([db EXCEPT !.rows = st.rows],
             Return(IF SqliteUpdated(st.rowcount) THEN PyTrue ELSE PyFalse))

SqliteGetEloNoDefault(db, a, fault) ==
    IF db.conn = 0 THEN Out(db, Raise(Exc("AttributeError", 0)))
    ELSE IF fault = "error" THEN Out(db, Raise(Exc("OperationalError", 0)))
    ELSE IF a.team \in DOMAIN EloScores THEN Out(db, ReturnNum(EloScores[a.team]))
    ELSE Out(db, Raise(Exc("TypeError", 0)))

\* SQLitePredictionStorage.get_elo: row[0] if row else 1500.0
SqliteGetElo(db, a, fault) ==
    IF db.conn = 0 THEN Out(db, Raise(Exc("AttributeError", 0)))
    ELSE IF fault = "error" THEN Out(db, Raise(Exc("OperationalError", 0)))
    ELSE Out(db, ReturnNum(IF a.team \in DOMAIN EloScores
                           THEN EloScores[a.team] ELSE DefaultElo))

InitGuardNever(db) == FALSE

\* if self._initialized: return
InitGuard(db) == db.initialized

\* SQLitePredictionStorage.initialize_connection; fault "connect" fails
\* aiosqlite.connect, fault "schema" fails the CREATE TABLE or its commit.
SqliteInitialize(db, fault) ==
    IF InitGuard(db) THEN Out(db, Return(PyNone))
    ELSE IF fault = "connect" THEN Out(db, Raise(Exc("OperationalError", 0)))
    ELSE LET opened == [db EXCEPT !.pools = Append(@, "open"),
                                  !.conn = Len(db.pools) + 1] IN
         IF fault = "schema" THEN Out(opened, Raise(Exc("OperationalError", 0)))
         ELSE Out([opened EXCEPT !.ddl = @ + 1, !.initialized = TRUE],
                  Return(PyNone))

\* SQLitePredictionStorage.close_connection
SqliteClose(db) ==
    IF db.conn # 0
    THEN Out([db EXCEPT !.pools[db.conn] = "closed", !.conn = 0,
                        !.initialized = FALSE], Return(PyNone))
    ELSE Out(db, Return(PyNone))

\* async with self.pool.acquire() as conn: on no pool, on a closed pool
PgUsable(db) == db.conn # 0 /\ db.pools[db.conn] = "open"
PgAcquireError(db, n) ==
    IF db.conn = 0 THEN Exc("AttributeError", n) ELSE Exc("InterfaceError", n)

PgInsertUpsert(db, a, fault, n) ==
    IF ~PgUsable(db) THEN Out(db, Raise(PgAcquireError(db, n)))
    ELSE IF fault = "conn_before" THEN Out(db, Raise(Exc("ConnectionError", n)))
    ELSE IF fault = "other" THEN Out(db, Raise(Exc("PostgresError", n)))
    ELSE LET st == InsertOrReplace(db.rows, NewRow(a.match_id, a.model, a.payload), TRUE)
             after == [db EXCEPT !.rows = st.rows] IN
         IF fault = "conn_after"
         THEN Out(after, Raise(Exc("ConnectionError", n)))
         ELSE Out(after, Return(PyTrue))

\* The body of PostgresPredictionStorage.insert_prediction, attempt n.
PgInsert(db, a, fault, n) ==
    IF ~PgUsable(db) THEN Out(db, Raise(PgAcquireError(db, n)))
    ELSE IF fault = "conn_before" THEN Out(db, Raise(Exc("ConnectionError", n)))
    ELSE IF fault = "other" THEN Out(db, Raise(Exc("PostgresError", n)))
    ELSE LET st == InsertStatement(db.rows, NewRow(a.match_id, a.model, a.payload), TRUE)
             after == [db EXCEPT !.rows = st.rows] IN
         IF st.violation THEN Out(db, Return(PyFalse))
         ELSE IF fault = "conn_after"
         THEN Out(after, Raise(Exc("ConnectionError", n)))
         ELSE Out(after, Return(PyTrue))

\* The body of PostgresPredictionStorage.update_prediction_with_score.
PgUpdate(db, a, fault, n) ==
    IF ~PgUsable(db) THEN Out(db, Raise(PgAcquireError(db, n)))
    ELSE IF fault = "conn_before" THEN Out(db, Raise(Exc("ConnectionError", n)))
    ELSE IF fault = "other" THEN Out(db, Raise(Exc("PostgresError", n)))
    ELSE LET st == UpdateStatement(db.rows, a.match_id, a.home_score, a.away_score)
             after == [db EXCEPT !.rows = st.rows] IN
         IF fault = "conn_after"
         THEN Out(after, Raise(Exc("ConnectionError", n)))
         ELSE Out(after, Return(IF PgUpdated(UpdateStatus(st.rowcount))
                                THEN PyTrue ELSE PyFalse))

\* The body of PostgresPredictionStorage.get_elo:
\* float(value) if value is not None else 1500.0
PgGetElo(db, a, fault, n) ==
    IF ~PgUsable(db) THEN Out(db, Raise(PgAcquireError(db, n)))
    ELSE IF fault \in {"conn_before", "conn_after"}
    THEN Out(db, Raise(Exc("ConnectionError", n)))
    ELSE IF fault = "other" THEN Out(db, Raise(Exc("PostgresError", n)))
    ELSE Out(db, ReturnNum(IF a.team \in DOMAIN EloScores
                           THEN EloScores[a.team] ELSE DefaultElo))

\* PostgresPredictionStorage.initialize_database run through its own wrapper:
\* inner[k] is what goes wrong on its k-th attempt.
InnerFaults == {"none", "conn", "other"}
InnerResult(fault, k) ==
    IF fault = "none" THEN Return(PyNone)
    ELSE IF fault = "conn" THEN Raise(Exc("ConnectionError", k))
    ELSE Raise(Exc("PostgresError", k))
InitializeDatabase(inner) ==
    RunFrame(EnterFrame("initialize_database", DefaultMaxRetries, DefaultDelay),
             [k \in 1..DefaultMaxRetries |-> InnerResult(inner[k], k)])

\* The body of PostgresPredictionStorage.initialize_connection, attempt n;
\* fault is what goes wrong in asyncpg.create_pool.
PgInitialize(db, fault, inner, n) ==
    IF InitGuard(db) THEN Out(db, Return(PyNone))
    ELSE IF fault = "conn" THEN Out(db, Raise(Exc("ConnectionError", n)))
    ELSE IF fault = "other" THEN Out(db, Raise(Exc("PostgresError", n)))
    ELSE LET opened == [db EXCEPT !.pools = Append(@, "open"),
                                  !.conn = Len(db.pools) + 1]
             schema == InitializeDatabase(inner).outcome IN
         IF schema.kind = "raise" THEN Out(opened, schema)
         ELSE Out([opened EXCEPT !.ddl = @ + 1, !.initialized = TRUE],
                  Return(PyNone))

\* PostgresPredictionStorage.close_connection
PgClose(db) ==
    IF db.conn # 0
    THEN Out([db EXCEPT !.pools[db.conn] = "closed"], Return(PyNone))
    ELSE Out(db, Return(PyNone))

\* -------------------------------------- the wrapper around an abstract func
\* What an awaited operation can do on attempt n: return, raise a
\* connection-class error, raise another error.
AttemptResults(n) ==
    {Return("result")}
    \cup {Raise(Exc(c, n)) : c \in ConnectionClasses \cup OtherClasses}

Callers == 1..NumCallers
IdleFrames == [c \in Callers |-> IdleFrame]

RetryCall ==
    /\ wr[1].pc = "idle"
    /\ \E n \in 0..MaxRetriesBound, d \in 1..MaxDelay :
          wr' = [wr EXCEPT ![1] = EnterFrame("func", n, d)]
    /\ UNCHANGED <<storeVars, run, job, calc>>

RetryAttempt ==
    /\ wr[1].pc = "call"
    /\ wr[1].func = "func"
    /\ \E res \in AttemptResults(wr[1].attempt) :
          wr' = [wr EXCEPT ![1] = AfterAttempt(@, res)]
    /\ UNCHANGED <<storeVars, run, job, calc>>

RetrySleep ==
    /\ wr[1].pc = "sleep"
    /\ wr[1].func = "func"
    /\ wr' = [wr EXCEPT ![1] = AfterSleep(@)]
    /\ UNCHANGED <<storeVars, run, job, calc>>

RetryRaise ==
    /\ wr[1].pc = "exhausted"
    /\ wr[1].func = "func"
    /\ wr' = [wr EXCEPT ![1] = AfterLoop(@)]
    /\ UNCHANGED <<storeVars, run, job, calc>>

RetryReturn ==
    /\ wr[1].pc = "done"
    /\ wr[1].func = "func"
    /\ wr' = [wr EXCEPT ![1] = IdleFrame]
    /\ UNCHANGED <<storeVars, run, job, calc>>

\* ----------------------------------------------- calls of store operations
\* call[c] is the operation caller c issued last: its name, its arguments,
\* its outcome and how often its wrapper, if it has one, awaited the method.
NoCall == [op |-> "none", args |-> NoArgs, outcome |-> Pending, attempts |-> 0]
NewCall(op, a) == [op |-> op, args |-> a, outcome |-> Pending, attempts |-> 0]

CallFree(c) ==
    /\ wr[c].pc = "idle"
    /\ call[c].op = "none" \/ call[c].outcome.kind # "none"

\* fault is what goes wrong in the database during this execution of the body;
\* for initialize_connection it is a record of the faults of its two steps.
SqliteBody(op, db, a, fault) ==
    IF op = "insert_prediction" THEN SqliteInsert(db, a, fault)
    ELSE IF op = "update_prediction_with_score" THEN SqliteUpdate(db, a, fault)
    ELSE IF op = "get_elo" THEN SqliteGetElo(db, a, fault)
    ELSE SqliteInitialize(db, fault)

PgBody(op, db, a, fault, n) ==
    IF op = "insert_prediction" THEN PgInsert(db, a, fault, n)
    ELSE IF op = "update_prediction_with_score" THEN PgUpdate(db, a, fault, n)
    ELSE IF op = "get_elo" THEN PgGetElo(db, a, fault, n)
    ELSE PgInitialize(db, fault.pool, fault.inner, n)

\* A frame that has come to its end hands its outcome to the caller and is
\* gone.
Finish(cl, f) ==
    IF f.pc = "done"
    THEN [cl EXCEPT !.outcome = f.outcome, !.attempts = f.invocations]
    ELSE cl
Unwind(f) == IF f.pc = "done" THEN IdleFrame ELSE f

\* The wrapper of caller c awaits the decorated Postgres method once.
PgAttempt(c, cl, f, fault) ==
    LET out == PgBody(cl.op, DB, cl.args, fault, f.attempt)
        g == AfterAttempt(f, out.res) IN
    /\ SetDB(out.db)
    /\ wr' = [wr EXCEPT ![c] = Unwind(g)]
    /\ call' = [call EXCEPT ![c] = Finish(cl, g)]
    /\ UNCHANGED <<kind, config>>

\* Caller c awaits the store's method op with arguments a.  The SQLite
\* method runs.  The Postgres method is decorated: its wrapper is entered and
\* awaits the method for the first time.
StoreCall(c, op, a, fault) ==
    /\ CallFree(c)
    /\ IF kind = "sqlite"
       THEN LET out == SqliteBody(op, DB, a, fault) IN
            /\ SetDB(out.db)
            /\ call' = [call EXCEPT ![c] = [NewCall(op, a) EXCEPT !.outcome = out.res]]
            /\ UNCHANGED <<wr, kind, config>>
       ELSE LET f == EnterFrame(op, DefaultMaxRetries, DefaultDelay) IN
            IF f.pc = "call"
            THEN PgAttempt(c, NewCall(op, a), f, fault)
            ELSE /\ wr' = [wr EXCEPT ![c] = f]
                 /\ call' = [call EXCEPT ![c] = NewCall(op, a)]
                 /\ UNCHANGED <<kind, config, rows, initialized, conn, pools, ddl>>

InsertPrediction(c, m, k, p, fault) ==
    /\ BagCardinality(rows) < MaxRows \/ UniqueViolation(rows, m, k)
    /\ StoreCall(c, "insert_prediction", InsertArgs(m, k, p), fault)

UpdatePredictionWithScore(c, m, h, a, fault) ==
    StoreCall(c, "update_prediction_with_score", UpdateArgs(m, h, a), fault)

GetElo(c, t, fault) == StoreCall(c, "get_elo", EloArgs(t), fault)

InitializeConnection(c, fault) ==
    /\ Len(pools) < MaxOpens \/ initialized
    /\ StoreCall(c, "initialize_connection", NoArgs, fault)

\* After a sleep the wrapper of caller c awaits the method again.
PgRetry(c, fault) ==
    /\ kind = "postgres"
    /\ wr[c].pc = "call"
    /\ wr[c].func # "func"
    /\ wr[c].func = "initialize_connection" => (Len(pools) < MaxOpens \/ initialized)
    /\ PgAttempt(c, call[c], wr[c], fault)

PgSleep(c) ==
    /\ kind = "postgres"
    /\ wr[c].pc = "sleep"
    /\ wr[c].func # "func"
    /\ wr' = [wr EXCEPT ![c] = AfterSleep(@)]
    /\ UNCHANGED storeVars

PgRaise(c) ==
    /\ kind = "postgres"
    /\ wr[c].pc = "exhausted"
    /\ wr[c].func # "func"
    /\ wr' = [wr EXCEPT ![c] = Unwind(AfterLoop(@))]
    /\ call' = [call EXCEPT ![c] = Finish(@, AfterLoop(wr[c]))]
    /\ UNCHANGED <<kind, config, rows, initialized, conn, pools, ddl>>

CloseConnection(c) ==
    /\ CallFree(c)
    /\ LET out == IF kind = "sqlite" THEN SqliteClose(DB) ELSE PgClose(DB) IN
       /\ SetDB(out.db)
       /\ call' = [call EXCEPT ![c] =
                     [NewCall("close_connection", NoArgs) EXCEPT !.outcome = out.res]]
    /\ UNCHANGED <<wr, kind, config>>

\* What can go wrong in the database while a method of the store runs.
StoreFaults == IF kind = "sqlite" THEN SqliteFaults ELSE PgFaults

\* The storage object as __init__ leaves it, on an empty database.
FreshDB == [rows |-> EmptyBag, initialized |-> FALSE, conn |-> 0,
            pools |-> <<>>, ddl |-> 0]

\* The fault records of initialize_connection.
SqliteInitFaults == {"none", "connect", "schema"}
PgInitFaults == [pool : InnerFaults, inner : [1..DefaultMaxRetries -> InnerFaults]]
NoPgInitFault == [pool |-> "none", inner |-> [k \in 1..DefaultMaxRetries |-> "none"]]

\* The storage object after its initialize_connection has completed.
InitializedDB(k) ==
    IF k = "sqlite" THEN SqliteInitialize(FreshDB, "none").db
    ELSE PgInitialize(FreshDB, "none", NoPgInitFault.inner, 1).db

\* ------------------------------------------------ PredictionModel's results
\* What a PredictionModel coroutine hands to its caller: nothing yet, the
\* pair (success, data) or None.  A failure's data is the list of one message.
NoResult == [shape |-> "pending", ok |-> FALSE, msg |-> "", payload |-> NoPayload]
NoneResult == [shape |-> "none", ok |-> FALSE, msg |-> "", payload |-> NoPayload]
Success(p) == [shape |-> "pair", ok |-> TRUE, msg |-> "", payload |-> p]
Failure(m) == [shape |-> "pair", ok |-> FALSE, msg |-> m, payload |-> NoPayload]

RateLimitStatus == 429
RateLimitMessage == "Too many requests - you can make up to 10 API calls per minute."

\* aiohttp.ClientResponseError with its status and its text
HttpError(status, text) == [cls |-> "ClientResponseError", tag |-> status, msg |-> text]

\* What Api.get can raise: a response error of the upstream gateway, or an
\* error that is no response error.
HttpErrors ==
    {HttpError(RateLimitStatus, "Too Many Requests"),
     HttpError(RateLimitStatus, "Quota exceeded"),
     HttpError(404, "Not Found")}
ApiErrors == HttpErrors \cup {Exc("ClientConnectorError", 0)}

\* What the code between two awaits can raise.
ProcessingErrors == {Exc("KeyError", 0)}

\* The two except clauses that end each of the five operations.
HandleErrorEchoText(e) ==
    IF e.cls = "ClientResponseError"
    THEN IF e.tag = RateLimitStatus THEN Failure(Str(e)) ELSE NoneResult
    ELSE Failure(Str(e))

HandleError(e) ==
    IF e.cls = "ClientResponseError"
    THEN IF e.tag = RateLimitStatus THEN Failure(RateLimitMessage) ELSE NoneResult
    ELSE Failure(Str(e))

\* The states of the check boxes of the registry's models, as flags; the
\* selections that have a flag set.
Selections == {<<0, 0>>, <<1, 0>>, <<0, 1>>}
RECURSIVE SumSeq(_)
SumSeq(q) == IF q = <<>> THEN 0 ELSE Head(q) + SumSeq(Tail(q))
Codes == {code \in Selections : SumSeq(code) # 0}

OnPredictAcceptsAll(code) == TRUE

\* MatchView.__on_predict: if sum(code)
OnPredictAccepts(code) == SumSeq(code) # 0
NoModelSelectedMessage == "Please select at least one model for the prediction!"

\* code_str: the concatenation of str(value) over the selection code.
RECURSIVE CodeStr(_)
CodeStr(code) ==
    IF code = <<>> THEN ""
    ELSE (IF Head(code) = 1 THEN "1" ELSE "0") \o CodeStr(Tail(code))

\* run[c]: the coroutine task c runs, the await it stands at, its arguments,
\* the predictions it derived, the error its try block caught, the stages it
\* has invoked so far, the rows its insert_prediction has created and its
\* result.
FetchOps == {"fetch_leagues", "fetch_teams", "fetch_matches", "fetch_h2h"}
IdleRun == [op |-> "none", pc |-> "idle", match_id |-> 0, code |-> <<>>,
            preds |-> NoPayload, error |-> NoException, trace |-> <<>>,
            persisted |-> 0, result |-> NoResult]
IdleRuns == [c \in Callers |-> IdleRun]

Invoke(r, stage) == [r EXCEPT !.pc = stage, !.trace = Append(@, stage)]
ReturnResult(r, res) == [r EXCEPT !.pc = "done", !.result = res]
Caught(r, e) == ReturnResult([r EXCEPT !.error = e], HandleError(e))

NextStageWindowsFirst(stage) ==
    CASE stage = "get_match" -> "get_home"
      [] stage = "get_home" -> "get_away"
      [] stage = "get_away" -> "elo_home"
      [] stage = "elo_home" -> "elo_away"
      [] stage = "elo_away" -> "features"
      [] stage = "features" -> "infer"
      [] stage = "infer" -> "probabilities"
      [] stage = "probabilities" -> "insert"

\* The stage predict_scores invokes after a stage has returned: the match,
\* the two ratings, the two windows, the statistics and the feature list,
\* the ensemble in its thread, the probabilities, insert_prediction.
NextStage(stage) ==
    CASE stage = "get_match" -> "elo_home"
      [] stage = "elo_home" -> "elo_away"
      [] stage = "elo_away" -> "get_home"
      [] stage = "get_home" -> "get_away"
      [] stage = "get_away" -> "features"
      [] stage = "features" -> "infer"
      [] stage = "infer" -> "probabilities"
      [] stage = "probabilities" -> "insert"

ThroughBlocking(r, stage) ==
    IF stage = "features"
    THEN Invoke(Invoke(Invoke(Invoke([r EXCEPT !.preds = CHOOSE p \in Payloads : TRUE],
                                     "features"), "infer"), "probabilities"), "insert")
    ELSE Invoke(Invoke(r, stage), NextStage(stage))

\* A stage that awaits nothing has run and the next one is invoked.
Through(r, stage) == Invoke(Invoke(r, stage), NextStage(stage))

\* The rows the step has added to the relation are the run's.
Persisted(r) ==
    [r EXCEPT !.persisted = @ + BagCardinality(rows') - BagCardinality(rows)]

\* The coroutine r resumes when its store call cl has an outcome.
Resume(r, cl) ==
    IF cl.outcome.kind = "none" THEN r
    ELSE IF r.op = "insert_prediction" THEN [r EXCEPT !.pc = "done"]
    ELSE IF cl.outcome.kind = "raise" THEN Caught(r, cl.outcome.exc)
    ELSE IF r.pc = "insert" THEN ReturnResult(r, Success(r.preds))
    ELSE Invoke(r, NextStage(r.pc))

\* ------------------------------------------------ the score backfill script
\* A full-time score in the JSON of the upstream API: a number or null.
Jobs == 1..NumJobs
NullScore == [null |-> TRUE, v |-> 0]
Score(n) == [null |-> FALSE, v |-> n]
ApiScores == {NullScore} \cup {Score(n) : n \in 0..MaxScore}

\* fetch_match_data: the pair (home, away) of a 200 answer that has the keys,
\* (None, None) on another status or a missing key; an error of the request
\* or of the JSON decoding is not caught.
FetchResults ==
    [kind : {"return"}, home : ApiScores, away : ApiScores]
    \cup {[kind |-> "raise", home |-> NullScore, away |-> NullScore]}

\* SELECT match_id FROM predictions
\* WHERE real_home_score = -1 AND real_away_score = -1, in any order
SentinelRows(rs) ==
    {r \in DOMAIN rs : r.real_home_score = SentinelScore
                       /\ r.real_away_score = SentinelScore}
Orderings(S) ==
    {f \in [1..Cardinality(S) -> S] :
        \A i \in DOMAIN f, k \in DOMAIN f : i # k => f[i] # f[k]}
SelectSentinel(rs) ==
    {[i \in DOMAIN f |-> f[i].match_id] : f \in Orderings(SentinelRows(rs))}

BackfillMatchesAnyScores(r, match_id) == r.match_id = match_id

\* WHERE match_id = ? AND real_home_score = -1 AND real_away_score = -1
BackfillMatches(r, match_id) ==
    /\ r.match_id = match_id
    /\ r.real_home_score = SentinelScore
    /\ r.real_away_score = SentinelScore

BackfillStatementHomeOnly(rs, match_id, home, away) ==
    LET Set(r) == IF BackfillMatches(r, match_id)
                  THEN [r EXCEPT !.real_home_score = home]
                  ELSE r IN
    [x \in {Set(r) : r \in DOMAIN rs} |->
        BagCardinality([r \in {q \in DOMAIN rs : Set(q) = x} |-> rs[r]])]

\* The UPDATE of update_scores_in_db and its commit.
BackfillStatement(rs, match_id, home, away) ==
    LET Set(r) == IF BackfillMatches(r, match_id)
                  THEN [r EXCEPT !.real_home_score = home,
                                 !.real_away_score = away]
                  ELSE r IN
    [x \in {Set(r) : r \in DOMAIN rs} |->
        CountIn(rs, {r \in DOMAIN rs : Set(r) = x})]

\* job[j]: where run j of the script stands, the match ids it selected, the
\* index of its iteration and cur.rowcount.
IdleJob == [pc |-> "idle", matches |-> <<>>, i |-> 0, rowcount |-> -1]
IdleJobs == [j \in Jobs |-> IdleJob]

\* update_scores_in_db is started and selects the matches to update.
BackfillSelect(j) ==
    /\ job[j].pc # "loop"
    /\ \E ms \in SelectSentinel(rows) :
          job' = [job EXCEPT ![j] =
                    [IdleJob EXCEPT !.pc = IF ms = <<>> THEN "done" ELSE "loop",
                                    !.matches = ms,
                                    !.i = IF ms = <<>> THEN 0 ELSE 1]]
    /\ UNCHANGED <<wr, storeVars, run, calc>>

\* One iteration of the for loop: the fetch, the guarded UPDATE when both
\* scores are there, the sleep.  After the last iteration, and when the fetch
\* raises, the process is gone.
BackfillIterate(j) ==
    /\ job[j].pc = "loop"
    /\ \E res \in FetchResults :
          LET g == job[j]
              m == g.matches[g.i]
              hit == ~res.home.null /\ ~res.away.null
              n == IF hit
                   THEN CountIn(rows, {r \in DOMAIN rows : BackfillMatches(r, m)})
                   ELSE g.rowcount IN
          IF res.kind = "raise"
          THEN /\ job' = [job EXCEPT ![j] = [IdleJob EXCEPT !.pc = "crashed"]]
               /\ UNCHANGED rows
          ELSE /\ job' = [job EXCEPT ![j] =
                            IF g.i = Len(g.matches)
                            THEN [IdleJob EXCEPT !.pc = "done"]
                            ELSE [g EXCEPT !.rowcount = n, !.i = g.i + 1]]
               /\ IF hit
                  THEN rows' = BackfillStatement(rows, m, res.home.v, res.away.v)
                  ELSE UNCHANGED rows
    /\ UNCHANGED <<wr, kind, config, initialized, conn, pools, ddl, call, run, calc>>

\* ------------------------------------------- PredictionModel's pure helpers
\* calc: the helper evaluated last, its arguments and what it returned.
NoCalc == [fn |-> "none", args |-> <<>>, out |-> <<>>]

\* The registry of models (ml_models), in the order of its keys; what the
\* home and the away model of an entry predict, in tenths of a goal.
Registry == <<"XGB", "MLP">>
ModelOutputs == [home : {10, 20}, away : {5, 15}]

RunPredictionAll(code, outputs) ==
    [home_xg |-> [i \in DOMAIN Registry |-> outputs[i].home],
     away_xg |-> [i \in DOMAIN Registry |-> outputs[i].away],
     loaded |-> DOMAIN Registry]

\* _run_prediction: for the entries whose flag is set, in the order of the
\* registry, the home and the away model are loaded and run and their
\* outputs collected.
RECURSIVE RunPredictionFrom(_, _, _, _)
RunPredictionFrom(i, code, outputs, acc) ==
    IF i > Len(Registry) THEN acc
    ELSE RunPredictionFrom(i + 1, code, outputs,
            IF code[i] # 0
            THEN [home_xg |-> Append(acc.home_xg, outputs[i].home),
                  away_xg |-> Append(acc.away_xg, outputs[i].away),
                  loaded |-> acc.loaded \cup {i}]
            ELSE acc)
RunPrediction(code, outputs) ==
    RunPredictionFrom(1, code, outputs,
                      [home_xg |-> <<>>, away_xg |-> <<>>, loaded |-> {}])

\* np.array(q).mean(): the sum over the count, as a fraction; the mean of
\* nothing (count 0) is nan.
Mean(q) == [num |-> SumSeq(q), den |-> Len(q)]

\* __make_prediction up to the two means.
EnsembleMeans(code, outputs) ==
    LET ran == RunPrediction(code, outputs) IN
    [home_xg |-> Mean(ran.home_xg), away_xg |-> Mean(ran.away_xg),
     loaded |-> ran.loaded]

ComputeEnsemble ==
    /\ calc = NoCalc
    /\ \E code \in [DOMAIN Registry -> {0, 1}],
          outputs \in [DOMAIN Registry -> ModelOutputs] :
          calc' = [fn |-> "make_prediction",
                   args |-> [code |-> code, outputs |-> outputs],
                   out |-> EnsembleMeans(code, outputs)]
    /\ UNCHANGED <<wr, storeVars, run, job>>

\* The matches of a team's window as the upstream API lists them: status,
\* id of the home team, full-time score.  The team asked for plays in each.
TeamIds == {1, 2}
WindowMatches ==
    [status : {"FINISHED", "TIMED"}, homeTeam : TeamIds,
     home : 0..MaxScore, away : 0..MaxScore]
NoStats == [points |-> 0, goals_for |-> 0, goals_against |-> 0,
            wins |-> 0, draws |-> 0, losses |-> 0]

StatsStepUnfiltered(acc, match, team_id) ==
    LET is_home == match.homeTeam = team_id
        gf == IF is_home THEN match.home ELSE match.away
        ga == IF is_home THEN match.away ELSE match.home IN
    [points |-> acc.points + (IF gf > ga THEN 3 ELSE IF gf = ga THEN 1 ELSE 0),
     goals_for |-> acc.goals_for + gf,
     goals_against |-> acc.goals_against + ga,
     wins |-> acc.wins + (IF gf > ga THEN 1 ELSE 0),
     draws |-> acc.draws + (IF gf = ga THEN 1 ELSE 0),
     losses |-> acc.losses + (IF gf < ga THEN 1 ELSE 0)]

StatsStepOverwrite(acc, match, team_id) ==
    LET is_home == match.homeTeam = team_id
        gf == IF is_home THEN match.home ELSE match.away
        ga == IF is_home THEN match.away ELSE match.home IN
    IF match.status # "FINISHED" THEN acc
    ELSE [points |-> acc.points + (IF gf > ga THEN 3 ELSE IF gf = ga THEN 1 ELSE 0),
          goals_for |-> gf,
          goals_against |-> ga,
          wins |-> acc.wins + (IF gf > ga THEN 1 ELSE 0),
          draws |-> acc.draws + (IF gf = ga THEN 1 ELSE 0),
          losses |-> acc.losses + (IF gf < ga THEN 1 ELSE 0)]

\* The body of the for loop of __calculate_last5_stats.
StatsStep(acc, match, team_id) ==
    LET is_home == match.homeTeam = team_id
        gf == IF is_home THEN match.home ELSE match.away
        ga == IF is_home THEN match.away ELSE match.home IN
    IF match.status # "FINISHED" THEN acc
    ELSE [points |-> acc.points + (IF gf > ga THEN 3 ELSE IF gf = ga THEN 1 ELSE 0),
          goals_for |-> acc.goals_for + gf,
          goals_against |-> acc.goals_against + ga,
          wins |-> acc.wins + (IF gf > ga THEN 1 ELSE 0),
          draws |-> acc.draws + (IF gf = ga THEN 1 ELSE 0),
          losses |-> acc.losses + (IF gf < ga THEN 1 ELSE 0)]

\* __calculate_last5_stats(team_id, team_data), team_data['matches'] = matches
RECURSIVE StatsFrom(_, _, _, _)
StatsFrom(i, acc, matches, team_id) ==
    IF i > Len(matches) THEN acc
    ELSE StatsFrom(i + 1, StatsStep(acc, matches[i], team_id), matches, team_id)
CalculateLast5Stats(team_id, matches) == StatsFrom(1, NoStats, matches, team_id)

ComputeStats ==
    /\ calc = NoCalc
    /\ \E team_id \in TeamIds, n \in 0..MaxWindow :
          \E matches \in [1..n -> WindowMatches] :
              calc' = [fn |-> "calculate_last5_stats",
                       args |-> [team_id |-> team_id, matches |-> matches],
                       out |-> CalculateLast5Stats(team_id, matches)]
    /\ UNCHANGED <<wr, storeVars, run, job>>

\* scipy's poisson.pmf(k, mu) in thousandths, rounded down, for mu = h/2:
\* exp(-mu) * mu^k / k!
PmfScale == 1000
ExpNegHalves == <<1000, 606, 367, 223, 135, 82, 49>>
RECURSIVE Factorial(_)
Factorial(k) == IF k = 0 THEN 1 ELSE k * Factorial(k - 1)
RECURSIVE Power(_, _)
Power(b, k) == IF k = 0 THEN 1 ELSE b * Power(b, k - 1)
PoissonPmf(k, h) == (ExpNegHalves[h + 1] * Power(h, k)) \div (Power(2, k) * Factorial(k))

\* __match_probabilities: probs[i, j] = pmf(i, l_home) * pmf(j, l_away)
MatchProbabilities(l_home, l_away, max_goals) ==
    [c \in (0..max_goals) \X (0..max_goals) |->
        PoissonPmf(c[1], l_home) * PoissonPmf(c[2], l_away)]

\* The sum of the cells S of a matrix.
RECURSIVE SumCells(_, _)
SumCells(M, S) ==
    IF S = {} THEN 0
    ELSE LET c == CHOOSE x \in S : TRUE IN M[c] + SumCells(M, S \ {c})

TrilWithDiagonal(M, k) == [c \in DOMAIN M |-> IF c[2] - c[1] <= k + 1 THEN M[c] ELSE 0]

\* np.tril(m, k), np.triu(m, k): the cells on and below, on and above the
\* k-th diagonal; the other cells zeroed.  np.trace(m).
Tril(M, k) == [c \in DOMAIN M |-> IF c[2] - c[1] <= k THEN M[c] ELSE 0]
Triu(M, k) == [c \in DOMAIN M |-> IF c[2] - c[1] >= k THEN M[c] ELSE 0]
Trace(M) == SumCells(M, {c \in DOMAIN M : c[1] = c[2]})

\* __make_prediction from the two means on.
OutcomeProbabilities(home_xg, away_xg, max_goals) ==
    LET probs == MatchProbabilities(home_xg, away_xg, max_goals) IN
    [probs |-> probs,
     P_HomeWin |-> SumCells(Tril(probs, -1), DOMAIN probs),
     P_AwayWin |-> SumCells(Triu(probs, 1), DOMAIN probs),
     P_Draw |-> Trace(probs)]

ComputeProbabilities ==
    /\ calc = NoCalc
    /\ \E home_xg \in 0..MaxXg, away_xg \in 0..MaxXg, max_goals \in 0..MaxGoals :
          calc' = [fn |-> "match_probabilities",
                   args |-> [home_xg |-> home_xg, away_xg |-> away_xg,
                             max_goals |-> max_goals],
                   out |-> OutcomeProbabilities(home_xg, away_xg, max_goals)]
    /\ UNCHANGED <<wr, storeVars, run, job>>

\* The same derivation in floating point.  A float is a number with
\* MantissaBits significant bits (a double has 53), written in units of
\* 1 / PmfScale^2; every product and every sum is rounded to the nearest
\* float, ties to the even one.
MantissaBits == 8
RECURSIVE Ulp(_, _)
Ulp(x, q) == IF x < Power(2, MantissaBits) * q THEN q ELSE Ulp(x, 2 * q)
RoundToFloat(x) ==
    LET q == Ulp(x, 1)
        lo == (x \div q) * q
        rem == x - lo IN
    IF 2 * rem < q THEN lo
    ELSE IF 2 * rem > q THEN lo + q
    ELSE IF (lo \div q) % 2 = 0 THEN lo ELSE lo + q
FloatAdd(a, b) == RoundToFloat(a + b)
FloatMul(a, b) == RoundToFloat(a * b)

\* probs[i, j] = poisson.pmf(i, l_home) * poisson.pmf(j, l_away), in floats
FloatMatchProbabilities(l_home, l_away, max_goals) ==
    [c \in (0..max_goals) \X (0..max_goals) |->
        FloatMul(RoundToFloat(PoissonPmf(c[1], l_home)),
                 RoundToFloat(PoissonPmf(c[2], l_away)))]

\* The cells of a matrix in the order of its memory, row after row.
Ravel(M, max_goals) ==
    [k \in 1..((max_goals + 1) * (max_goals + 1)) |->
        M[<<(k - 1) \div (max_goals + 1), (k - 1) % (max_goals + 1)>>]]

\* numpy's sum of up to 128 floats a[1..n]: below eight of them one after
\* the other; else eight running sums r[j] of a[j], a[j + 8], ..., added
\* up as ((r1 + r2) + (r3 + r4)) + ((r5 + r6) + (r7 + r8)), then the rest.
RECURSIVE SumFrom(_, _, _, _)
SumFrom(a, i, to, res) ==
    IF i > to THEN res ELSE SumFrom(a, i + 1, to, FloatAdd(res, a[i]))
RECURSIVE LaneSum(_, _, _, _)
LaneSum(a, i, to, r) ==
    IF i > to THEN r ELSE LaneSum(a, i + 8, to, FloatAdd(r, a[i]))
PairwiseSum(a) ==
    LET n == Len(a)
        m == n - (n % 8)
        r == [j \in 1..8 |-> LaneSum(a, j + 8, m, a[j])] IN
    IF n < 8 THEN SumFrom(a, 1, n, 0)
    ELSE SumFrom(a, m + 1, n,
                 FloatAdd(FloatAdd(FloatAdd(r[1], r[2]), FloatAdd(r[3], r[4])),
                          FloatAdd(FloatAdd(r[5], r[6]), FloatAdd(r[7], r[8]))))

\* p_home_win = np.tril(probs, -1).sum(); p_away_win = np.triu(probs, 1).sum();
\* p_draw = np.trace(probs)
FloatOutcomeProbabilities(home_xg, away_xg, max_goals) ==
    LET probs == FloatMatchProbabilities(home_xg, away_xg, max_goals) IN
    [probs |-> probs,
     P_HomeWin |-> PairwiseSum(Ravel(Tril(probs, -1), max_goals)),
     P_AwayWin |-> PairwiseSum(Ravel(Triu(probs, 1), max_goals)),
     P_Draw |-> PairwiseSum([k \in 1..(max_goals + 1) |-> probs[<<k - 1, k - 1>>]])]

ComputeFloatProbabilities ==
    /\ calc = NoCalc
    /\ \E home_xg \in 0..MaxXg, away_xg \in 0..MaxXg, max_goals \in 0..MaxGoals :
          calc' = [fn |-> "float_probabilities",
                   args |-> [home_xg |-> home_xg, away_xg |-> away_xg,
                             max_goals |-> max_goals],
                   out |-> FloatOutcomeProbabilities(home_xg, away_xg, max_goals)]
    /\ UNCHANGED <<wr, storeVars, run, job>>

ComputeInit ==
    /\ wr = IdleFrames
    /\ kind = "sqlite"
    /\ config = DefaultConfig
    /\ IsDB(FreshDB)
    /\ call = [c \in Callers |-> NoCall]
    /\ run = IdleRuns
    /\ job = IdleJobs
    /\ calc = NoCalc

ComputeNext ==
    \/ ComputeEnsemble \/ ComputeStats \/ ComputeProbabilities
    \/ ComputeFloatProbabilities

SpecCompute == ComputeInit /\ [][ComputeNext]_vars

RetryInit ==
    /\ wr = IdleFrames
    /\ kind = "postgres"
    /\ config = DefaultConfig
    /\ IsDB(FreshDB)
    /\ call = [c \in Callers |-> NoCall]
    /\ run = IdleRuns
    /\ job = IdleJobs
    /\ calc = NoCalc

RetryNext == RetryCall \/ RetryAttempt \/ RetrySleep \/ RetryRaise \/ RetryReturn

SpecRetry == RetryInit /\ [][RetryNext]_vars

\* ------------------------------------------------- claims about the wrapper
\* The frame of the wrapper around the abstract operation, and what its
\* attempts did so far.
RetryFrame == wr[1]
IsConnRaise(res) == res.kind = "raise" /\ res.exc.cls \in ConnectionClasses
IsOtherRaise(res) == res.kind = "raise" /\ res.exc.cls \notin ConnectionClasses
FailedAttempts(f) == {i \in 1..Len(f.results) : IsConnRaise(f.results[i])}

\* C6: with max_retries = N >= 1 and base delay d, an operation that fails
\* with a connection-class error on its first k attempts (k < N) is awaited a
\* (k+1)-th time, and when that attempt succeeds the wrapper returns its
\* result after exactly k+1 invocations and exactly k delays, the i-th delay
\* being d * i.
RetryThenSuccess ==
    LET f == RetryFrame
        n == Len(f.results)
        k == Cardinality(FailedAttempts(f)) IN
    (f.func = "func" /\ f.max_retries >= 1) =>
        /\ (FailedAttempts(f) = 1..n /\ n < f.max_retries) =>
              /\ f.pc \in {"sleep", "call"}
              /\ f.invocations = n
        /\ (n >= 1 /\ FailedAttempts(f) = 1..(n - 1) /\ f.results[n].kind = "return") =>
              /\ f.pc = "done"
              /\ f.outcome = f.results[n]
              /\ k < f.max_retries
              /\ f.invocations = k + 1
              /\ Len(f.sleeps) = k
              /\ \A i \in 1..k : f.sleeps[i] = f.delay * i

\* C6, the case of the claim: max_retries = 3, two connection-class failures,
\* then success.
RetryThenSuccessWitness ==
    LET f == RetryFrame IN
    /\ f.pc = "done"
    /\ f.max_retries = 3
    /\ f.delay = 2
    /\ Len(f.results) = 3
    /\ IsConnRaise(f.results[1])
    /\ IsConnRaise(f.results[2])
    /\ f.outcome = Return("result")
    /\ Len(f.sleeps) = 2

\* C7: an operation that fails with a connection-class error on every attempt
\* is awaited at most max_retries times; after the max_retries-th failure the
\* wrapper neither sleeps nor calls again, and it ends by raising the error of
\* the last attempt; it never returns a value.
ExhaustionReraisesLast ==
    LET f == RetryFrame
        n == Len(f.results) IN
    (f.func = "func" /\ n >= 1 /\ FailedAttempts(f) = 1..n) =>
        /\ n <= f.max_retries
        /\ f.invocations = n
        /\ f.outcome.kind # "return"
        /\ n = f.max_retries => f.pc \in {"exhausted", "done"}
        /\ f.pc = "done" =>
              /\ n = f.max_retries
              /\ f.outcome = Raise(f.results[n].exc)

\* C7, the case of the claim: three attempts, each failed with a
\* connection-class error, and the wrapper has raised.
ExhaustionWitness ==
    LET f == RetryFrame IN
    /\ f.pc = "done"
    /\ f.max_retries = 3
    /\ Len(f.results) = 3
    /\ FailedAttempts(f) = 1..3
    /\ f.outcome.kind = "raise"
    /\ f.outcome.exc.tag = 3

\* C8: an attempt that raises an error that is not connection-class ends the
\* wrapper at once: that attempt is the last invocation, no delay follows it
\* and the same error is raised to the caller; when it is the first attempt
\* the operation was invoked exactly once and no delay was performed.
OtherErrorPassesThrough ==
    LET f == RetryFrame IN
    f.func = "func" =>
        \A i \in 1..Len(f.results) :
            IsOtherRaise(f.results[i]) =>
                /\ i = Len(f.results)
                /\ f.pc = "done"
                /\ f.outcome = f.results[i]
                /\ f.invocations = i
                /\ Len(f.sleeps) = i - 1
                /\ i = 1 => (f.invocations = 1 /\ f.sleeps = <<>>)

\* C8, the case of the claim: the first attempt raised a uniqueness
\* violation.
OtherErrorWitness ==
    LET f == RetryFrame IN
    /\ f.pc = "done"
    /\ f.max_retries = 3
    /\ Len(f.results) = 1
    /\ f.outcome = Raise(Exc("UniqueViolationError", 1))

\* ------------------------------ one client of an initialized storage object
StoreInit ==
    /\ wr = IdleFrames
    /\ kind \in {"sqlite", "postgres"}
    /\ config = DefaultConfig
    /\ IsDB(InitializedDB(kind))
    /\ call = [c \in Callers |-> NoCall]
    /\ run = IdleRuns
    /\ job = IdleJobs
    /\ calc = NoCalc

StoreInsert ==
    /\ \E m \in 1..MaxMatch, k \in ModelKeys, p \in Payloads :
          InsertPrediction(1, m, k, p, "none")
    /\ UNCHANGED <<run, job, calc>>

StoreUpdate ==
    /\ \E m \in 1..MaxMatch, h \in 0..MaxScore, a \in 0..MaxScore :
          UpdatePredictionWithScore(1, m, h, a, "none")
    /\ UNCHANGED <<run, job, calc>>

StoreNext == StoreInsert \/ StoreUpdate

SpecStore == StoreInit /\ [][StoreNext]_vars

\* ----------------------------------------- claims about the store's methods
\* The call that a step of the single client completes, and its arguments.
Completes(op) == call'[1].op = op /\ call'[1].outcome.kind # "none"
HasKey(rs, m, k) == \E r \in DOMAIN rs : r.match_id = m /\ r.model = k
HasMatch(rs, m) == \E r \in DOMAIN rs : r.match_id = m
WithScores(r, h, a) == [r EXCEPT !.real_home_score = h, !.real_away_score = a]

\* C1: in both stores an insert_prediction for a key that has no row returns
\* True and creates the row with the values given; an insert_prediction for a
\* key that has a row returns False, raises nothing and leaves the relation
\* as it was, whatever values it passes.
InsertFirstWriterWins ==
    [][LET a == call'[1].args IN
       Completes("insert_prediction") =>
           IF HasKey(rows, a.match_id, a.model)
           THEN /\ call'[1].outcome = Return(PyFalse)
                /\ rows' = rows
           ELSE /\ call'[1].outcome = Return(PyTrue)
                /\ rows' = rows (+) SetToBag({NewRow(a.match_id, a.model, a.payload)})
      ]_vars

\* C10: update_prediction_with_score(match_id, h, a) sets both real scores
\* on exactly the rows of that match_id, whatever their model key, changes no
\* other row and no other column, and returns True iff at least one row
\* matched; with no row of that match_id it returns False and the relation
\* is as it was.
UpdateByMatchId ==
    [][LET a == call'[1].args
           hit == {r \in DOMAIN rows : r.match_id = a.match_id}
           Upd(r) == WithScores(r, a.home_score, a.away_score) IN
       Completes("update_prediction_with_score") =>
           /\ \A r \in DOMAIN rows \ hit :
                 r \in DOMAIN rows' /\ rows'[r] = rows[r]
           /\ \A r \in hit : Upd(r) \in DOMAIN rows'
           /\ \A x \in DOMAIN rows' :
                 \/ x \in DOMAIN rows \ hit
                 \/ \E r \in hit : x = Upd(r)
           /\ BagCardinality(rows') = BagCardinality(rows)
           /\ call'[1].outcome = Return(IF hit # {} THEN PyTrue ELSE PyFalse)
           /\ hit = {} => rows' = rows
           /\ <<initialized, conn, pools, ddl>>' = <<initialized, conn, pools, ddl>>
      ]_vars

\* C10, the case of the claim: an update has returned True with two rows of
\* its match_id, of different model keys, both carrying the scores given, and
\* a row of another match_id still carrying the sentinel.
UpdateByMatchIdWitness ==
    /\ call[1].op = "update_prediction_with_score"
    /\ call[1].outcome = Return(PyTrue)
    /\ \E r1 \in DOMAIN rows, r2 \in DOMAIN rows, r3 \in DOMAIN rows :
          /\ r1.match_id = call[1].args.match_id
          /\ r2.match_id = call[1].args.match_id
          /\ r1.model # r2.model
          /\ r1.real_home_score = 0 /\ r1.real_away_score = 1
          /\ r2.real_home_score = 0 /\ r2.real_away_score = 1
          /\ r3.match_id # call[1].args.match_id
          /\ r3.real_home_score = SentinelScore

\* ------------------------------- the life cycle of one storage object's link
ConnInit ==
    /\ wr = IdleFrames
    /\ kind \in {"sqlite", "postgres"}
    /\ config \in (IF kind = "postgres" THEN Configs ELSE {DefaultConfig})
    /\ IsDB(FreshDB)
    /\ call = [c \in Callers |-> NoCall]
    /\ run = IdleRuns
    /\ job = IdleJobs
    /\ calc = NoCalc

ConnInitialize ==
    \/ /\ kind = "sqlite"
       /\ \E fault \in SqliteInitFaults : InitializeConnection(1, fault)
       /\ UNCHANGED <<run, job, calc>>
    \/ /\ kind = "postgres"
       /\ \E fault \in PgInitFaults : InitializeConnection(1, fault)
       /\ UNCHANGED <<run, job, calc>>

ConnRetry ==
    \/ /\ wr[1].func = "initialize_connection"
       /\ \E fault \in PgInitFaults : PgRetry(1, fault)
       /\ UNCHANGED <<run, job, calc>>
    \/ /\ wr[1].func # "initialize_connection"
       /\ \E fault \in PgFaults : PgRetry(1, fault)
       /\ UNCHANGED <<run, job, calc>>

ConnSleep == PgSleep(1) /\ UNCHANGED <<run, job, calc>>

ConnRaise == PgRaise(1) /\ UNCHANGED <<run, job, calc>>

ConnClose == CloseConnection(1) /\ UNCHANGED <<run, job, calc>>

ConnGetElo ==
    /\ \E t \in Teams, fault \in StoreFaults : GetElo(1, t, fault)
    /\ UNCHANGED <<run, job, calc>>

ConnNext ==
    ConnInitialize \/ ConnRetry \/ ConnSleep \/ ConnRaise \/ ConnClose \/ ConnGetElo

SpecConn == ConnInit /\ [][ConnNext]_vars

\* C9: initialize_connection called on a storage object whose _initialized
\* flag is set (an earlier initialize_connection completed successfully; the
\* SQLite close_connection clears the flag) returns None and is a no-op: no
\* connection or pool is opened, no schema statement is executed, and the
\* object's state is as it was.
InitializeIsIdempotent ==
    [][(initialized /\ Completes("initialize_connection")) =>
           /\ call'[1].outcome = Return(PyNone)
           /\ DB' = DB
           /\ wr' = wr
      ]_vars

\* C9, the case of the claim: initialize_connection has returned on an
\* initialized object that still has the one link and the one schema
\* statement of its first initialization.
InitializeIsIdempotentWitness ==
    /\ call[1].op = "initialize_connection"
    /\ call[1].outcome = Return(PyNone)
    /\ initialized
    /\ Len(pools) = 1
    /\ ddl = 1

\* ------------------------------------- concurrent PredictionModel coroutines
\* Every task runs one coroutine against the one initialized store: a
\* predict_scores, a fetch operation, or a direct insert_prediction.
GetStages == {"get_match", "get_home", "get_away"}
EloStages == {"elo_home", "elo_away"}
StoreStages == EloStages \cup {"insert"}

PipeInit ==
    /\ wr = IdleFrames
    /\ kind \in {"sqlite", "postgres"}
    /\ config = DefaultConfig
    /\ IsDB(InitializedDB(kind))
    /\ call = [c \in Callers |-> NoCall]
    /\ run = IdleRuns
    /\ job = IdleJobs
    /\ calc = NoCalc

\* The user asks for a prediction: MatchView.__on_predict reads the check
\* boxes; it emits predict_match, on which the controller awaits
\* predict_scores, which awaits the match; or it emits no_model_selected.
PipePredict ==
    /\ \E c \in Callers, m \in 1..MaxMatch, code \in Selections :
          /\ run[c].op = "none"
          /\ run' = [run EXCEPT ![c] =
                       IF OnPredictAccepts(code)
                       THEN Invoke([IdleRun EXCEPT !.op = "predict_scores",
                                                   !.match_id = m, !.code = code],
                                   "get_match")
                       ELSE ReturnResult([IdleRun EXCEPT !.op = "on_predict",
                                                         !.match_id = m,
                                                         !.code = code],
                                         Failure(NoModelSelectedMessage))]
    /\ UNCHANGED <<wr, storeVars, job, calc>>

\* An Api.get of predict_scores ends, and the code up to the next await runs:
\* the names are read from the match, the statistics are computed from the
\* two windows.
PipeGet ==
    /\ \E c \in Callers :
          /\ run[c].op = "predict_scores"
          /\ run[c].pc \in GetStages
          /\ \E e \in {NoException} \cup ApiErrors \cup
                      (IF run[c].pc = "get_home" THEN {} ELSE ProcessingErrors) :
                run' = [run EXCEPT ![c] =
                          IF e \in ApiErrors THEN Caught(@, e)
                          ELSE IF @.pc = "get_away"
                          THEN IF e = NoException
                               THEN Through(@, NextStage(@.pc))
                               ELSE Caught(Invoke(@, NextStage(@.pc)), e)
                          ELSE IF e = NoException THEN Invoke(@, NextStage(@.pc))
                          ELSE Caught(@, e)]
    /\ UNCHANGED <<wr, storeVars, job, calc>>

\* predict_scores awaits get_elo for the home name, then for the away name.
PipeElo ==
    \E c \in Callers, fault \in StoreFaults :
        /\ run[c].op = "predict_scores"
        /\ run[c].pc \in EloStages
        /\ GetElo(c, IF run[c].pc = "elo_home" THEN "H" ELSE "A", fault)
        /\ run' = [run EXCEPT ![c] = Resume(@, call'[c])]
        /\ UNCHANGED <<job, calc>>

\* The ensemble has run in its thread and the probabilities are derived.
PipeInfer ==
    /\ \E c \in Callers :
          /\ run[c].op = "predict_scores"
          /\ run[c].pc = "infer"
          /\ \/ \E p \in Payloads :
                   run' = [run EXCEPT ![c] =
                             Through([@ EXCEPT !.preds = p], NextStage(@.pc))]
             \/ \E e \in ProcessingErrors :
                   run' = [run EXCEPT ![c] = Caught(@, e)]
    /\ UNCHANGED <<wr, storeVars, job, calc>>

\* predict_scores awaits insert_prediction under the key (match_id, code_str).
PipeInsert ==
    \E c \in Callers, fault \in StoreFaults :
        /\ run[c].op = "predict_scores"
        /\ run[c].pc = "insert"
        /\ InsertPrediction(c, run[c].match_id, CodeStr(run[c].code),
                            run[c].preds, fault)
        /\ run' = [run EXCEPT ![c] = Persisted(Resume(@, call'[c]))]
        /\ UNCHANGED <<job, calc>>

\* A task calls the store's insert_prediction itself.
PipeDirectInsert ==
    \E c \in Callers, m \in 1..MaxMatch, k \in ModelKeys, p \in Payloads,
       fault \in StoreFaults :
        /\ run[c].op = "none"
        /\ InsertPrediction(c, m, k, p, fault)
        /\ run' = [run EXCEPT ![c] =
                     Persisted(Resume(Invoke([IdleRun EXCEPT
                                                  !.op = "insert_prediction",
                                                  !.match_id = m], "insert"),
                                      call'[c]))]
        /\ UNCHANGED <<job, calc>>

\* The wrapper of a pending Postgres call goes on.
PipeRetry ==
    \E c \in Callers, fault \in PgFaults :
        /\ run[c].pc \in StoreStages
        /\ PgRetry(c, fault)
        /\ run' = [run EXCEPT ![c] = Persisted(Resume(@, call'[c]))]
        /\ UNCHANGED <<job, calc>>

PipeSleep ==
    /\ \E c \in Callers : run[c].pc \in StoreStages /\ PgSleep(c)
    /\ UNCHANGED <<run, job, calc>>

PipeRaise ==
    \E c \in Callers :
        /\ run[c].pc \in StoreStages
        /\ PgRaise(c)
        /\ run' = [run EXCEPT ![c] = Resume(@, call'[c])]
        /\ UNCHANGED <<job, calc>>

\* fetch_leagues, fetch_teams, fetch_matches, fetch_h2h: one Api.get, then
\* the processing of its data; they touch nothing that is shared.
PipeFetch ==
    /\ \E c \in Callers, op \in FetchOps,
          e \in {NoException} \cup ApiErrors \cup ProcessingErrors :
          /\ run[c].op = "none"
          /\ run' = [run EXCEPT ![c] =
                       LET r == Invoke([IdleRun EXCEPT !.op = op], "get") IN
                       IF e = NoException THEN ReturnResult(r, Success(NoPayload))
                       ELSE Caught(r, e)]
    /\ UNCHANGED <<wr, storeVars, job, calc>>

PipeNext ==
    \/ PipePredict \/ PipeGet \/ PipeElo \/ PipeInfer \/ PipeInsert
    \/ PipeDirectInsert \/ PipeRetry \/ PipeSleep \/ PipeRaise \/ PipeFetch

SpecPipeline == PipeInit /\ [][PipeNext]_vars

\* ------------------------------------------ claims about concurrent coroutines
PipelineOps == FetchOps \cup {"predict_scores"}
Stages(r) == {r.trace[i] : i \in 1..Len(r.trace)}
SameKey(r1, r2) == r1.match_id = r2.match_id /\ r1.model = r2.model
IsRateLimit(e) == e.cls = "ClientResponseError" /\ e.tag = RateLimitStatus

\* C2: in every reachable state of every interleaving of predict_scores runs
\* and direct insert_prediction calls the predictions relation holds at most
\* one row per (match_id, model).
OneRowPerKey ==
    /\ \A r \in DOMAIN rows : rows[r] = 1
    /\ \A r1 \in DOMAIN rows, r2 \in DOMAIN rows : SameKey(r1, r2) => r1 = r2

\* C2, the case of the claim: two predict_scores runs of the same match and
\* the same selection, with different predictions, have both awaited
\* insert_prediction and returned, and the key has its one row.
OneRowPerKeyWitness ==
    /\ run[1].op = "predict_scores" /\ run[2].op = "predict_scores"
    /\ run[1].pc = "done" /\ run[2].pc = "done"
    /\ run[1].match_id = run[2].match_id
    /\ run[1].code = run[2].code
    /\ run[1].preds # run[2].preds
    /\ run[1].result.ok /\ run[2].result.ok
    /\ CountIn(rows, {r \in DOMAIN rows : r.match_id = run[1].match_id
                                         /\ r.model = CodeStr(run[1].code)}) = 1

\* C3: every completed predict_scores, fetch_leagues, fetch_teams,
\* fetch_matches and fetch_h2h has returned a pair: (True, payload) when no
\* stage failed, (False, [message]) when a stage raised, whatever it raised.
UniformResult ==
    \A c \in Callers :
        (run[c].op \in PipelineOps /\ run[c].pc = "done") =>
            /\ run[c].result.shape = "pair"
            /\ run[c].result.ok = (run[c].error = NoException)

\* C4: a predict_scores in which a stage raised has returned normally, and
\* what it returned is (False, [message]), the message being the error's.
ErrorBecomesFailure ==
    \A c \in Callers :
        (/\ run[c].op = "predict_scores"
         /\ run[c].pc = "done"
         /\ run[c].error # NoException) =>
            \E m \in {RateLimitMessage, Str(run[c].error)} :
                run[c].result = Failure(m)

\* C5: the step in which one of the five operations catches a response error
\* of status 429 ends it with (False, [m]), m the one fixed guidance text
\* whatever the operation and the error's text; the relation is as it was,
\* and the operation has not invoked insert_prediction.
RateLimitGivesFixedMessage ==
    [][\A c \in Callers :
          (/\ run[c].pc # "done"
           /\ run'[c].pc = "done"
           /\ run'[c].op \in PipelineOps
           /\ IsRateLimit(run'[c].error)) =>
              /\ run'[c].result = Failure(RateLimitMessage)
              /\ rows' = rows
              /\ "insert" \notin Stages(run'[c])
      ]_vars

\* C5, the case of the claim: a predict_scores whose last Api.get was answered
\* with status 429 and a fetch operation answered with status 429 and another
\* text have both returned the fixed message.
RateLimitWitness ==
    /\ run[1].op = "predict_scores" /\ run[1].pc = "done"
    /\ run[1].trace = <<"get_match", "elo_home", "elo_away", "get_home", "get_away">>
    /\ run[2].op \in FetchOps /\ run[2].pc = "done"
    /\ IsRateLimit(run[1].error) /\ IsRateLimit(run[2].error)
    /\ Str(run[1].error) # Str(run[2].error)
    /\ run[1].result = Failure(RateLimitMessage)
    /\ run[2].result = run[1].result
    /\ rows = EmptyBag

\* --------------------- the application's store and runs of the backfill script
\* The actual scores a caller hands to update_prediction_with_score.
ScoreInputs == 0..MaxScore

BackfillInit ==
    /\ wr = IdleFrames
    /\ kind = "sqlite"
    /\ config = DefaultConfig
    /\ IsDB(InitializedDB(kind))
    /\ call = [c \in Callers |-> NoCall]
    /\ run = IdleRuns
    /\ job = IdleJobs
    /\ calc = NoCalc

\* A predict_scores of the application has derived its predictions and
\* awaits insert_prediction under the key (match_id, code_str).
BackfillInsert ==
    /\ \E m \in 1..MaxMatch, code \in Codes :
          /\ BagCardinality(rows) < MaxBackfillRows
             \/ UniqueViolation(rows, m, CodeStr(code))
          /\ InsertPrediction(1, m, CodeStr(code),
                              CHOOSE p \in Payloads : p.home_xg = 15, "none")
    /\ UNCHANGED <<run, job, calc>>

\* A caller awaits update_prediction_with_score and drops what it returns.
BackfillScoreUpdate ==
    /\ \E m \in 1..MaxMatch, h \in ScoreInputs, a \in ScoreInputs :
          SetDB(SqliteUpdate(DB, UpdateArgs(m, h, a), "none").db)
    /\ UNCHANGED <<wr, kind, config, call, run, job, calc>>

BackfillStart == \E j \in Jobs : BackfillSelect(j)

BackfillLoop == \E j \in Jobs : BackfillIterate(j)

BackfillNext ==
    BackfillInsert \/ BackfillScoreUpdate \/ BackfillStart \/ BackfillLoop

SpecBackfill == BackfillInit /\ [][BackfillNext]_vars

\* --------------------------------------------- claims about the real scores
Unscored(r) ==
    r.real_home_score = SentinelScore /\ r.real_away_score = SentinelScore
Kept(r) == r \in DOMAIN rows' /\ rows'[r] = rows[r]

RowsAreKept ==
    [][/\ \A r \in DOMAIN rows :
             \E q \in DOMAIN rows' :
                 /\ q.match_id = r.match_id /\ q.model = r.model
                 /\ PayloadOf(q) = PayloadOf(r)
       /\ call' # call => \A r \in DOMAIN rows : Kept(r)
      ]_vars

\* C12, the case of the claim: the insert_prediction of a predict_scores has
\* met a row of its key that has its real scores, and the row has them still.
RowsAreKeptWitness ==
    /\ call[1].op = "insert_prediction"
    /\ call[1].outcome = Return(PyFalse)
    /\ \E r \in DOMAIN rows :
          /\ r.match_id = call[1].args.match_id
          /\ r.model = call[1].args.model
          /\ r.real_home_score = 1 /\ r.real_away_score = 0

\* C13: a step of a backfill run leaves every row that has a real score as
\* it is: the values written first stay.
BackfillKeepsFirstScores ==
    [][job' # job => \A r \in DOMAIN rows : ~Unscored(r) => Kept(r)]_vars

\* C13, the case of the claim: two runs selected the same match first; one
\* has written its scores, the UPDATE of the other has matched no row, and
\* the row has scores.
BackfillRaceWitness ==
    /\ job[1].pc = "loop" /\ job[2].pc = "loop"
    /\ job[1].matches[1] = job[2].matches[1]
    /\ job[1].rowcount >= 1
    /\ job[2].rowcount = 0
    /\ \E r \in DOMAIN rows : r.match_id = job[1].matches[1] /\ ~Unscored(r)

\* --------------------------------------------- claims about the selection
\* C14: a request whose selection has no flag set is rejected before
\* predict_scores is called: it never invokes the inference, and no row is
\* stored under its key.
ZeroSelectionRejected ==
    /\ \A c \in Callers :
          (run[c].code # <<>> /\ SumSeq(run[c].code) = 0) =>
              /\ run[c].op = "on_predict"
              /\ run[c].result = Failure(NoModelSelectedMessage)
              /\ Stages(run[c]) = {}
    /\ \A r \in DOMAIN rows : r.model # CodeStr(<<0, 0>>)

\* C14, the case of the claim: one request with no flag set was rejected,
\* another with a flag set has stored its row.
ZeroSelectionWitness ==
    /\ run[1].op = "on_predict"
    /\ run[1].code = <<0, 0>>
    /\ run[1].pc = "done"
    /\ run[2].op = "predict_scores"
    /\ run[2].result.ok
    /\ BagCardinality(rows) = 1

\* C15: when the insert_prediction of a predict_scores meets a row of its
\* key, the relation stays as it is, no uniqueness error reaches
\* predict_scores, and unless the database fails predict_scores returns
\* (True, predictions).
DuplicateIsBenign ==
    [][\A c \in Callers :
          (/\ run[c].op = "predict_scores"
           /\ run[c].pc = "insert"
           /\ run'[c].pc = "done"
           /\ HasKey(rows, run[c].match_id, CodeStr(run[c].code))) =>
              /\ rows' = rows
              /\ run'[c].error.cls \notin {"IntegrityError", "UniqueViolationError"}
              /\ run'[c].error = NoException => run'[c].result = Success(run[c].preds)
              /\ kind = "sqlite" /\ run'[c].error = NoException
                    => call'[c].outcome = Return(PyFalse)
      ]_vars

\* C15, the case of the claim: a predict_scores has returned (True,
\* predictions) although its insert was refused, the row of its key holding
\* the other predictions of an earlier writer.
DuplicateIsBenignWitness ==
    /\ kind = "sqlite"
    /\ run[2].op = "predict_scores"
    /\ run[2].pc = "done"
    /\ run[2].result = Success(run[2].preds)
    /\ call[2].op = "insert_prediction"
    /\ call[2].outcome = Return(PyFalse)
    /\ \E r \in DOMAIN rows :
          /\ r.match_id = run[2].match_id
          /\ r.model = CodeStr(run[2].code)
          /\ PayloadOf(r) # run[2].preds

\* ------------------------------------------------- claims about the ratings
\* C16: a get_elo that returns gives the stored rating of the team when the
\* ratings relation has a row of that name and 1500.0 when it has none; when
\* it raises, the error is one of the database or of its connection, whatever
\* the name.
GetEloDefaults ==
    [][LET t == call'[1].args.team
           out == call'[1].outcome IN
       Completes("get_elo") =>
           IF out.kind = "return"
           THEN out = ReturnNum(IF t \in DOMAIN EloScores
                                THEN EloScores[t] ELSE DefaultElo)
           ELSE out.exc.cls \in {"AttributeError", "InterfaceError",
                                 "OperationalError", "PostgresError",
                                 "ConnectionError"}
      ]_vars

\* C16, the case of the claim: get_elo("UnknownTeamXYZ") has returned 1500.0.
GetEloDefaultsWitness ==
    /\ call[1].op = "get_elo"
    /\ call[1].args.team = "UnknownTeamXYZ"
    /\ call[1].outcome = ReturnNum(1500)
    /\ kind = "sqlite"

\* ------------------------------------------- claims about the pure helpers
\* The sum of f over the set S.
RECURSIVE SumOver(_, _)
SumOver(S, f) ==
    IF S = {} THEN 0
    ELSE LET x == CHOOSE y \in S : TRUE IN f[x] + SumOver(S \ {x}, f)

\* C17: home_xg and away_xg are the means of the home and away outputs of
\* exactly the entries whose flag is set, and only those entries are loaded;
\* with outputs (1.0, 0.5) and (2.0, 1.5), both selected give (1.5, 1.0) and
\* one selected gives its own pair.
EnsembleIsMeanOfSelected ==
    calc.fn = "make_prediction" =>
        LET code == calc.args.code
            outputs == calc.args.outputs
            sel == {i \in DOMAIN Registry : code[i] = 1} IN
        /\ calc.out.loaded = sel
        /\ calc.out.home_xg.den = Cardinality(sel)
        /\ calc.out.away_xg.den = Cardinality(sel)
        /\ calc.out.home_xg.num = SumOver(sel, [i \in sel |-> outputs[i].home])
        /\ calc.out.away_xg.num = SumOver(sel, [i \in sel |-> outputs[i].away])
        /\ (outputs = <<[home |-> 10, away |-> 5], [home |-> 20, away |-> 15]>>
            /\ sel # {}) =>
              /\ 10 * calc.out.home_xg.num =
                    calc.out.home_xg.den * (IF sel = {1, 2} THEN 150
                                            ELSE IF sel = {1} THEN 100 ELSE 200)
              /\ 10 * calc.out.away_xg.num =
                    calc.out.away_xg.den * (IF sel = {1, 2} THEN 100
                                            ELSE IF sel = {1} THEN 50 ELSE 150)

\* C17, the case of the claim: both models selected, outputs (1.0, 0.5) and
\* (2.0, 1.5), means 3.0 / 2 and 2.0 / 2.
EnsembleWitness ==
    /\ calc.fn = "make_prediction"
    /\ calc.args.code = <<1, 1>>
    /\ calc.args.outputs = <<[home |-> 10, away |-> 5], [home |-> 20, away |-> 15]>>
    /\ calc.out.home_xg = [num |-> 30, den |-> 2]
    /\ calc.out.away_xg = [num |-> 20, den |-> 2]

\* The team's goals and its opponent's goals in a match, by its role.
GoalsFor(match, team_id) ==
    IF match.homeTeam = team_id THEN match.home ELSE match.away
GoalsAgainst(match, team_id) ==
    IF match.homeTeam = team_id THEN match.away ELSE match.home

\* C18: the form of a team counts only the FINISHED matches of the
\* collection; goals_for and goals_against are the sums of the team's and the
\* opponent's goals by role over them, each of them is exactly one of a win,
\* a draw and a loss, points = 3 * wins + draws and wins + draws + losses is
\* the number of finished matches.
FormCountsFinishedOnly ==
    calc.fn = "calculate_last5_stats" =>
        LET matches == calc.args.matches
            team_id == calc.args.team_id
            fin == {i \in DOMAIN matches : matches[i].status = "FINISHED"}
            gf == [i \in fin |-> GoalsFor(matches[i], team_id)]
            ga == [i \in fin |-> GoalsAgainst(matches[i], team_id)] IN
        /\ calc.out.goals_for = SumOver(fin, gf)
        /\ calc.out.goals_against = SumOver(fin, ga)
        /\ calc.out.wins = Cardinality({i \in fin : gf[i] > ga[i]})
        /\ calc.out.draws = Cardinality({i \in fin : gf[i] = ga[i]})
        /\ calc.out.losses = Cardinality({i \in fin : gf[i] < ga[i]})
        /\ calc.out.points = 3 * calc.out.wins + calc.out.draws
        /\ calc.out.wins + calc.out.draws + calc.out.losses = Cardinality(fin)

\* C18, the case of the claim: a window with an unfinished match that has a
\* score, a win away from home and a draw.
FormWitness ==
    /\ calc.fn = "calculate_last5_stats"
    /\ Len(calc.args.matches) = 3
    /\ \E i \in DOMAIN calc.args.matches :
          /\ calc.args.matches[i].status # "FINISHED"
          /\ calc.args.matches[i].home # calc.args.matches[i].away
    /\ \E i \in DOMAIN calc.args.matches :
          /\ calc.args.matches[i].status = "FINISHED"
          /\ calc.args.matches[i].homeTeam # calc.args.team_id
          /\ calc.args.matches[i].away > calc.args.matches[i].home
    /\ calc.out.wins = 1
    /\ calc.out.draws = 1
    /\ calc.out.losses = 0
    /\ calc.out.points = 4

\* The same collection of matches in the order p.
Reordered(matches, p) == [i \in DOMAIN matches |-> matches[p[i]]]

\* C19: the form computed from a collection of matches is the one computed
\* from every permutation of it, and computing it changes neither the
\* collection nor any other state.
FormIsOrderIndependent ==
    [][calc'.fn = "calculate_last5_stats" =>
          /\ \A p \in Permutations(DOMAIN calc'.args.matches) :
                CalculateLast5Stats(calc'.args.team_id,
                                    Reordered(calc'.args.matches, p))
                    = calc'.out
          /\ UNCHANGED <<wr, storeVars, run, job>>]_vars

\* C19, the case of the claim: two finished matches in which the team scored
\* differently, so that the order they are read in could matter.
FormOrderWitness ==
    /\ calc.fn = "calculate_last5_stats"
    /\ Len(calc.args.matches) >= 2
    /\ calc.args.matches[1].status = "FINISHED"
    /\ calc.args.matches[2].status = "FINISHED"
    /\ GoalsFor(calc.args.matches[1], calc.args.team_id)
          # GoalsFor(calc.args.matches[2], calc.args.team_id)
    /\ calc.out.goals_for = 1

MarginalSymmetry ==
    (calc.fn = "float_probabilities" /\ calc.args.home_xg = calc.args.away_xg) =>
        calc.out.P_HomeWin = calc.out.P_AwayWin

\* ------------------------------------------- claims about the pipeline's runs
\* The stages of predict_scores in the order of its code; the runs of
\* predict_scores that have returned, and how.
PredictStages ==
    <<"get_match", "elo_home", "elo_away", "get_home", "get_away", "features",
      "infer", "probabilities", "insert">>
IsPrefix(t, q) == Len(t) <= Len(q) /\ \A i \in 1..Len(t) : t[i] = q[i]
Returned(c) == run[c].op = "predict_scores" /\ run[c].pc = "done"
Succeeded(c) == Returned(c) /\ run[c].result.shape = "pair" /\ run[c].result.ok
Failed(c) == Returned(c) /\ ~Succeeded(c)
InsertCalls(c) == Cardinality({i \in 1..Len(run[c].trace) : run[c].trace[i] = "insert"})

\* C22 as claimed: the stages of every predict_scores run occur in the order
\* rating lookup, window fetches, feature extraction, inference, probability
\* derivation, insert_prediction; a failed run has not called
\* insert_prediction and has persisted nothing; a successful run has called
\* insert_prediction exactly once.
FailedRunNeverInserts ==
    \A c \in Callers :
        run[c].op = "predict_scores" =>
            /\ IsPrefix(run[c].trace, PredictStages)
            /\ Failed(c) => (InsertCalls(c) = 0 /\ run[c].persisted = 0)
            /\ Succeeded(c) => InsertCalls(c) = 1

\* C22, amended: the stages of every predict_scores run occur in that order,
\* no stage is invoked after one that failed; a run that failed in a stage
\* before insert_prediction has not called insert_prediction and has
\* persisted nothing; a successful run has gone through every stage and has
\* called insert_prediction exactly once.
StagesInOrderUntilFailure ==
    \A c \in Callers :
        run[c].op = "predict_scores" =>
            /\ IsPrefix(run[c].trace, PredictStages)
            /\ (Failed(c) /\ run[c].trace[Len(run[c].trace)] # "insert") =>
                  (InsertCalls(c) = 0 /\ run[c].persisted = 0)
            /\ Succeeded(c) =>
                  (InsertCalls(c) = 1 /\ run[c].trace = PredictStages)

\* C22, the case of the claim: a run whose feature extraction raised, with
\* nothing of the later stages, beside a run that went through all stages and
\* created its row.
StagesWitness ==
    /\ Failed(1)
    /\ run[1].trace = SubSeq(PredictStages, 1, 6)
    /\ run[1].result = Failure("KeyError")
    /\ run[1].persisted = 0
    /\ Succeeded(2)
    /\ run[2].trace = PredictStages
    /\ run[2].persisted = 1
    /\ BagCardinality(rows) = 1

\* C23: in predict_scores the fetch of the away team's window is issued
\* before the fetch of the home team's window has completed, so that the two
\* are in flight together; the later stages are invoked only after both have
\* completed, and a run in which either fetch fails is a failed run that has
\* persisted nothing.
WindowsFetchedTogether ==
    [][\A c \in Callers :
          run'[c].op = "predict_scores" =>
              /\ (run[c].pc = "get_home" /\ run'[c].pc # "get_home") =>
                    "get_away" \in Stages(run[c])
              /\ "features" \in Stages(run'[c]) =>
                    (run'[c].pc # "get_home" /\ run'[c].pc # "get_away")
              /\ (/\ run[c].pc \in {"get_home", "get_away"}
                  /\ run'[c].error # NoException) =>
                    /\ run'[c].pc = "done"
                    /\ ~(run'[c].result.shape = "pair" /\ run'[c].result.ok)
                    /\ run'[c].persisted = 0
                    /\ rows' = rows
      ]_vars

\* ------------------------------------- claims about the number of attempts
\* The wrapper has come to its end after connection-class failures only.
GaveUp(f) ==
    /\ f.func = "func"
    /\ f.max_retries >= 1
    /\ f.pc = "done"
    /\ FailedAttempts(f) = 1..Len(f.results)

\* C24 as claimed: an operation that fails with a connection-class error on
\* every attempt is invoked again max_retries times after its first failed
\* attempt, each retry after a delay of base_delay * attempt_number, and then
\* the last error is raised.
RetriedMaxRetriesTimes ==
    LET f == RetryFrame IN
    GaveUp(f) =>
        /\ f.invocations = 1 + f.max_retries
        /\ Len(f.sleeps) = f.max_retries
        /\ \A i \in 1..Len(f.sleeps) : f.sleeps[i] = f.delay * i
        /\ f.outcome = Raise(f.results[Len(f.results)].exc)

\* C24, amended: such an operation is invoked max_retries times in all, that
\* is again max_retries - 1 times after its first failed attempt, each retry
\* after a delay of base_delay * attempt_number, and then the last error is
\* raised.
AttemptedMaxRetriesTimes ==
    LET f == RetryFrame IN
    GaveUp(f) =>
        /\ f.invocations = f.max_retries
        /\ Len(f.sleeps) = f.max_retries - 1
        /\ \A i \in 1..Len(f.sleeps) : f.sleeps[i] = f.delay * i
        /\ f.outcome = Raise(f.results[Len(f.results)].exc)

\* C24, the case of the claim: the default max_retries, base delay 2, every
\* attempt failed; two delays, 2 and 4, and the third error raised.
AttemptsWitness ==
    LET f == RetryFrame IN
    /\ GaveUp(f)
    /\ f.max_retries = DefaultMaxRetries
    /\ f.delay = 2
    /\ f.invocations = 3
    /\ f.sleeps = <<2, 4>>
    /\ f.outcome = Raise(Exc("ConnectionResetError", 3))

\* ------------------------------------------ claims about retried store calls
\* The rows of the key of an insert_prediction with arguments a.
KeyRows(rs, a) ==
    {r \in DOMAIN rs : r.match_id = a.match_id /\ r.model = a.model}
\* The step is a retry of caller c's insert_prediction: an attempt after a
\* connection-class failure of the attempt before.
RetriesInsert(c) ==
    /\ kind = "postgres"
    /\ wr[c].func = "insert_prediction"
    /\ wr[c].pc = "call"
    /\ wr[c].attempt >= 2
    /\ wr'[c] # wr[c]

\* C25: a retry of insert_prediction after a connection-class failure leaves
\* at most one row for the key; when the key has a row, written by the failed
\* attempt or by anybody else, the retry changes nothing, and when it has
\* none the retry creates the row with the values of the call: the values of
\* the key's row are those of its first write.
RetriedInsertIsSafe ==
    [][\A c \in Callers :
          RetriesInsert(c) =>
              LET a == call[c].args IN
              /\ CountIn(rows', KeyRows(rows', a)) <= 1
              /\ KeyRows(rows, a) # {} => rows' = rows
              /\ KeyRows(rows, a) = {} =>
                    rows' \in {rows, rows (+) SetToBag({NewRow(a.match_id, a.model,
                                                                a.payload)})}
      ]_vars

\* C25, the case of the claim: an insert_prediction of a predict_scores run
\* whose every attempt lost its connection, the row written by one of those
\* failed attempts: the wrapper has raised and the key has its one row.
RetriedInsertWitness ==
    /\ kind = "postgres"
    /\ call[1].op = "insert_prediction"
    /\ call[1].attempts = DefaultMaxRetries
    /\ call[1].outcome.kind = "raise"
    /\ run[1].op = "predict_scores"
    /\ run[1].persisted = 1
    /\ CountIn(rows, KeyRows(rows, call[1].args)) = 1
    /\ \A r \in KeyRows(rows, call[1].args) : PayloadOf(r) = call[1].args.payload

\* ------------------------------------- claims about what a successful run stored
\* The predicted values of a row or of a result's payload.
Predicted(p) ==
    <<p.home_xg, p.away_xg, p.home_p, p.draw_p, p.away_p>>
\* The rows of the key of the run r.
RunRows(rs, r) ==
    {x \in DOMAIN rs : x.match_id = r.match_id /\ x.model = CodeStr(r.code)}

\* C26 as claimed: whenever predict_scores has returned (True, p), the row
\* stored for (match_id, model key of the selection) has the predicted values
\* of p, also when the key had a row before the run.
StoredRowIsResult ==
    \A c \in Callers :
        Succeeded(c) =>
            /\ RunRows(rows, run[c]) # {}
            /\ \A x \in RunRows(rows, run[c]) :
                  Predicted(x) = Predicted(run[c].result.payload)

\* C26, amended: the step in which predict_scores returns (True, p) leaves
\* exactly one row for the key; when the run's insert_prediction created
\* that row it has the predicted values of p; when it did not, the key had
\* its row before and the step has left the relation as it was.
StoredRowIsFirstResult ==
    [][\A c \in Callers :
          (/\ run[c].op = "predict_scores"
           /\ run[c].pc = "insert"
           /\ run'[c].pc = "done"
           /\ run'[c].result.shape = "pair"
           /\ run'[c].result.ok) =>
              /\ CountIn(rows', RunRows(rows', run[c])) = 1
              /\ run'[c].persisted \in {0, 1}
              /\ run'[c].persisted = 1 =>
                    \A x \in RunRows(rows', run[c]) :
                        Predicted(x) = Predicted(run'[c].result.payload)
              /\ run'[c].persisted = 0 =>
                    (RunRows(rows, run[c]) # {} /\ rows' = rows)
      ]_vars

\* C26, the case of the claim: two runs for the same key have returned True
\* with different predictions; the row is the one the first of them created.
StoredRowWitness ==
    /\ Succeeded(1) /\ Succeeded(2)
    /\ run[1].match_id = run[2].match_id
    /\ run[1].code = run[2].code
    /\ run[1].persisted = 1
    /\ run[2].persisted = 0
    /\ Predicted(run[1].result.payload) # Predicted(run[2].result.payload)
    /\ \A x \in RunRows(rows, run[2]) :
          Predicted(x) = Predicted(run[1].result.payload)

\* ------------------------------------------- claims about the store's link
\* C27: every pool a Postgres storage object has created is the object's
\* current pool or has been closed; no pool is created and then left open
\* with nothing referring to it.
NoPoolAbandoned ==
    kind = "postgres" =>
        \A i \in 1..Len(pools) : pools[i] = "open" => conn = i

\* C28: in both stores an initialize_connection that returns, also one that
\* follows a close_connection, leaves the object with an open connection or
\* pool, and a store operation that completes while the object counts as
\* initialized has not run against a closed or absent connection or pool.
InitializeReconnects ==
    [][/\ (Completes("initialize_connection") /\ call'[1].outcome = Return(PyNone)) =>
             /\ conn' # 0
             /\ pools'[conn'] = "open"
       /\ (Completes("get_elo") /\ initialized) =>
             (conn # 0 /\ pools[conn] = "open")
      ]_vars

\* C29: the max_retries and retry_delay given to the constructor of a
\* Postgres storage object are the number of attempts and the base delay of
\* the wrapper of every store operation of that object; an operation that
\* fails with a connection-class error on every attempt ends after
\* max_retries attempts.
ConstructorSetsRetries ==
    /\ (kind = "postgres" /\ wr[1].func \notin {"none", "func"}) =>
          /\ wr[1].max_retries = config.max_retries
          /\ wr[1].delay = config.retry_delay
    /\ (/\ kind = "postgres"
        /\ call[1].op = "get_elo"
        /\ call[1].outcome.kind = "raise"
        /\ IsConnectionClass(call[1].outcome.exc)) =>
          call[1].attempts = config.max_retries

\* ------------------------------------------ claims about the scheduler
\* Task d takes a step of the pipeline.
TaskStep(d) == PipeNext /\ (run'[d] # run[d] \/ wr'[d] # wr[d])
\* The step invokes the ensemble inference of task c.
InvokesInference(c) ==
    /\ "infer" \notin Stages(run[c])
    /\ "infer" \in Stages(run'[c])

\* C30: the step of predict_scores that invokes the ensemble inference does
\* not run it to its end: the task is suspended until the inference has
\* completed, and as long as it is, every other task that has not returned
\* can take a step.
InferenceDoesNotBlock ==
    [][\A c \in Callers :
          /\ InvokesInference(c) => run'[c].pc = "infer"
          /\ run[c].pc = "infer" =>
                \A d \in Callers \ {c} :
                    run[d].pc # "done" => ENABLED TaskStep(d)
      ]_vars

\* C30, the case of the claim: the inferences of two runs are in progress at
\* once, so the second run has taken steps, the last of them the fetch of a
\* window, after the inference of the first was invoked.
InferenceWitness ==
    /\ run[1].op = "predict_scores" /\ run[1].pc = "infer"
    /\ run[2].op = "predict_scores" /\ run[2].pc = "infer"

====
